---- MODULE Spec2Model ----
(***************************************************************************)
(* Buffer pool manager of scu_db (buffer_pool_manager.cpp) with its LRU    *)
(* replacer, page table and disk manager collaborators.                    *)
(*                                                                         *)
(* Every public operation runs under lock_guard<mutex> lck(latch_).  The   *)
(* first part takes one action for one whole call (Spec, SpecNDEBUG); the  *)
(* second part runs the operations statement by statement in several       *)
(* threads (SpecThreads ..) and shows that the first is what they amount   *)
(* to.  The frames pages_[0..pool_size_-1] are named 1..PoolSize, and      *)
(* nullptr is 0.                                                           *)
(***************************************************************************)
EXTENDS Integers, Sequences, FiniteSets

\* ---------------------------------------------------------------- bounds
PoolSize == 2        \* pool_size_ : number of frames
MaxPageId == 3       \* the disk manager hands out page ids 0 .. MaxPageId-1
MaxPin == 1          \* FetchPage hits are cut off at this pin count
NumThreads == 2      \* threads calling into the pool
MaxCalls == 7        \* operations the threads call in one run

\* ------------------------------------------------------------- constants
INVALID_PAGE_ID == -1
nullptr == 0

Frames == 1..PoolSize
PageIds == 0..(MaxPageId - 1)

\* The contents of a frame (Page::data_, PAGE_SIZE bytes) are kept as one of two
\* values: all zero bytes, as ResetMemory leaves them, or any other bytes, as
\* ReadPage or a caller writing through GetData() leaves them.
Zeroed == "zeroed"
Bytes == "bytes"
Data == {Zeroed, Bytes}

VARIABLES
    page_id_,        \* Page::page_id_   of every frame
    pin_count_,      \* Page::pin_count_ of every frame
    is_dirty_,       \* Page::is_dirty_  of every frame
    data_,           \* Page::data_      of every frame
    page_table_,     \* page id -> frame, nullptr when the key is absent
    replacer_,       \* LRU list, least recently inserted first
    free_list_,      \* std::list<Page *>, front first
    next_page_id_,   \* DiskManager: the id AllocatePage returns next
    NDEBUG,          \* the build: TRUE when NDEBUG is defined and assert() is empty
    aborted,         \* an assert() has failed and the process is gone
    calls,           \* the disk manager calls of the last operation, in order
    last,            \* the last operation, its arguments and what it returned
    inserted,        \* history: the tracked frames, oldest replacer_->Insert first
    latch_,          \* BufferPoolManager::latch_: the thread holding it, or 0
    replacer_latch,  \* LRUReplacer::latch: the thread holding it, or 0
    pc,              \* where every thread is in the operation it called
    req,             \* every thread's call: operation, arguments, locals
    mem,             \* the pool's memory while an operation works on it
    ncalls           \* operations called so far

pool == <<page_id_, pin_count_, is_dirty_, data_, page_table_, replacer_, free_list_>>
vars == <<page_id_, pin_count_, is_dirty_, data_, page_table_, replacer_, free_list_,
          next_page_id_, NDEBUG, aborted, calls, last, inserted>>

\* ------------------------------------------------- sequences as std::list
RECURSIVE SeqRemove(_, _)
SeqRemove(s, x) ==
    IF s = <<>> THEN <<>>
    ELSE IF Head(s) = x THEN SeqRemove(Tail(s), x)
    ELSE <<Head(s)>> \o SeqRemove(Tail(s), x)

InSeq(s, x) == \E i \in 1..Len(s) : s[i] = x

Count(s, x) == Cardinality({i \in 1..Len(s) : s[i] = x})

\* --------------------------------------------------------- LRUReplacer<T>
\* Insert: most-recently-used position; nothing happens to a tracked value.
ReplacerInsert(r, f) == IF InSeq(r, f) THEN r ELSE Append(r, f)

\* Erase: removes the value when tracked, otherwise nothing.
ReplacerErase(r, f) == SeqRemove(r, f)

\* Size
ReplacerSize(r) == Len(r)

\* Victim: the least recently inserted value, removed from the list.
ReplacerVictim(r) == [value |-> Head(r), rest |-> Tail(r)]

\* -------------------------------------------- ExtendibleHash<page_id_t, Page *>
TableFind(t, id) == IF id \in DOMAIN t THEN t[id] ELSE nullptr

TableRemove(t, id) == [k \in DOMAIN t |-> IF k = id THEN nullptr ELSE t[k]]

TableInsert(t, id, f) == [k \in DOMAIN t |-> IF k = id THEN f ELSE t[k]]

\* ------------------------------------------------------------ DiskManager
WritePageCall(id, d) == [fn |-> "WritePage", id |-> id, data |-> d]
ReadPageCall(id) == [fn |-> "ReadPage", id |-> id, data |-> Bytes]
AllocatePageCall(id) == [fn |-> "AllocatePage", id |-> id, data |-> Zeroed]
DeallocatePageCall(id) == [fn |-> "DeallocatePage", id |-> id, data |-> Zeroed]

\* What the operation op(id) returned: "page", "nullptr", "true", "false", or
\* "abort" when it did not return; and where GetVictimPage took the frame.
Returned(op, id, ret, from) == [op |-> op, page_id |-> id, ret |-> ret, from |-> from]

\* --------------------------------------------------------- threads: state
\* Several threads call the five operations.  Each operation opens with
\* lock_guard<mutex> lck(latch_) (lines 84, 122, 149, 176, 204) and the guard
\* is destroyed when the operation returns.  While an operation runs, its
\* statements work on mem, the memory of the pool; the variables page_id_ ..
\* last hold the pool as the last completed operation left it, and take the
\* contents of mem when an operation returns.
Threads == 1..NumThreads
NoThread == 0

\* A thread's call: the operation, its arguments, its local targetPtr and what
\* it is about to return.
NoCall ==
    [op |-> "none", page_id |-> INVALID_PAGE_ID, is_dirty |-> FALSE,
     targetPtr |-> nullptr, ret |-> "none", from |-> "none"]

InBody(t) == pc[t] \notin {"idle", "lock"}

tvars == <<latch_, replacer_latch, pc, req, mem, ncalls>>
allvars == <<vars, tvars>>

\* The pool's memory as a record of the members, with the disk manager calls
\* of the operation in progress.
Memory ==
    [page_id_ |-> page_id_, pin_count_ |-> pin_count_, is_dirty_ |-> is_dirty_,
     data_ |-> data_, page_table_ |-> page_table_, replacer_ |-> replacer_,
     free_list_ |-> free_list_, next_page_id_ |-> next_page_id_, calls |-> <<>>]

\* No thread is in an operation.
NoThreads ==
    /\ latch_ = NoThread
    /\ replacer_latch = NoThread
    /\ pc = [t \in Threads |-> "idle"]
    /\ req = [t \in Threads |-> NoCall]
    /\ mem = Memory
    /\ ncalls = 0

\* ------------------------------------------------------------------- Init
\* Page(): page_id_ = INVALID_PAGE_ID, pin_count_ = 0, is_dirty_ = false, zeroed
\* memory; the constructor pushes every frame onto the free list in order.
Init ==
    /\ page_id_ = [f \in Frames |-> INVALID_PAGE_ID]
    /\ pin_count_ = [f \in Frames |-> 0]
    /\ is_dirty_ = [f \in Frames |-> FALSE]
    /\ data_ = [f \in Frames |-> Zeroed]
    /\ page_table_ = [id \in PageIds |-> nullptr]
    /\ replacer_ = <<>>
    /\ free_list_ = [i \in 1..PoolSize |-> i]
    /\ next_page_id_ = 0
    /\ NDEBUG = FALSE
    /\ aborted = FALSE
    /\ calls = <<>>
    /\ last = Returned("init", INVALID_PAGE_ID, "none", "none")
    /\ inserted = <<>>
    /\ NoThreads

\* -------------------------------------------------------- GetVictimPage
\* The frame to reuse, the free list and the replacer as the helper leaves
\* them, and whether its two assert()s hold.
GetVictimPage_ReplacerFirst ==
    IF ReplacerSize(replacer_) # 0
    THEN [target |-> ReplacerVictim(replacer_).value, free |-> free_list_,
          repl |-> ReplacerVictim(replacer_).rest,
          asserts |-> pin_count_[ReplacerVictim(replacer_).value] = 0,
          from |-> "replacer"]
    ELSE IF free_list_ = <<>>
    THEN [target |-> nullptr, free |-> free_list_, repl |-> replacer_,
          asserts |-> TRUE, from |-> "none"]
    ELSE [target |-> Head(free_list_), free |-> Tail(free_list_), repl |-> replacer_,
          asserts |-> /\ page_id_[Head(free_list_)] = INVALID_PAGE_ID
                      /\ pin_count_[Head(free_list_)] = 0,
          from |-> "free"]

GetVictimPage_FreeOnly ==
    IF free_list_ = <<>>
    THEN [target |-> nullptr, free |-> free_list_, repl |-> replacer_,
          asserts |-> TRUE, from |-> "none"]
    ELSE [target |-> Head(free_list_), free |-> Tail(free_list_), repl |-> replacer_,
          asserts |-> /\ page_id_[Head(free_list_)] = INVALID_PAGE_ID
                      /\ pin_count_[Head(free_list_)] = 0,
          from |-> "free"]

GetVictimPage ==
    IF free_list_ = <<>>
    THEN IF ReplacerSize(replacer_) = 0
         THEN [target |-> nullptr, free |-> free_list_, repl |-> replacer_,
               asserts |-> TRUE, from |-> "none"]
         ELSE [target |-> ReplacerVictim(replacer_).value, free |-> free_list_,
               repl |-> ReplacerVictim(replacer_).rest,
               asserts |-> pin_count_[ReplacerVictim(replacer_).value] = 0,
               from |-> "replacer"]
    ELSE [target |-> Head(free_list_), free |-> Tail(free_list_), repl |-> replacer_,
          asserts |-> /\ page_id_[Head(free_list_)] = INVALID_PAGE_ID
                      /\ pin_count_[Head(free_list_)] = 0,
          from |-> "free"]

\* An assert() of GetVictimPage that does not hold ends the process there in a
\* build with assertions (the helper's own changes are made, nothing of the
\* caller's after it) and is skipped in a build with NDEBUG defined.
AssertFails(v, op, id) ==
    /\ ~v.asserts
    /\ ~NDEBUG
    /\ aborted' = TRUE
    /\ free_list_' = v.free
    /\ replacer_' = v.repl
    /\ calls' = <<>>
    /\ last' = Returned(op, id, "abort", v.from)
    /\ UNCHANGED <<page_id_, pin_count_, is_dirty_, data_, page_table_,
                   next_page_id_, NDEBUG>>

AssertPasses(v) ==
    /\ v.asserts \/ NDEBUG
    /\ UNCHANGED <<NDEBUG, aborted>>

\* if (targetPtr->is_dirty_) disk_manager_->WritePage(targetPtr->GetPageId(),
\* targetPtr->data_): the disk calls the write-back of a victim makes.
WriteBack_Never(targetPtr) == <<>>

WriteBack(targetPtr) ==
    IF is_dirty_[targetPtr]
    THEN <<WritePageCall(page_id_[targetPtr], data_[targetPtr])>>
    ELSE <<>>

\* ------------------------------------------------------------ FetchPage
\* lines 88-91: the page table has page_id
FetchPageHit_NoErase(page_id) ==
    LET targetPtr == TableFind(page_table_, page_id) IN
    /\ pin_count_' = [pin_count_ EXCEPT ![targetPtr] = @ + 1]
    /\ calls' = <<>>
    /\ last' = Returned("FetchPage", page_id, "page", "hit")
    /\ UNCHANGED <<page_id_, is_dirty_, data_, page_table_, free_list_, replacer_,
                   next_page_id_, NDEBUG, aborted>>

FetchPageHit_Reread(page_id) ==
    LET targetPtr == TableFind(page_table_, page_id) IN
    /\ pin_count_' = [pin_count_ EXCEPT ![targetPtr] = @ + 1]
    /\ replacer_' = ReplacerErase(replacer_, targetPtr)
    /\ calls' = <<ReadPageCall(page_id)>>
    /\ data_' = [data_ EXCEPT ![targetPtr] = Bytes]
    /\ last' = Returned("FetchPage", page_id, "page", "hit")
    /\ UNCHANGED <<page_id_, is_dirty_, page_table_, free_list_,
                   next_page_id_, NDEBUG, aborted>>

FetchPageHit(page_id) ==
    LET targetPtr == TableFind(page_table_, page_id) IN
    /\ pin_count_' = [pin_count_ EXCEPT ![targetPtr] = @ + 1]
    /\ replacer_' = ReplacerErase(replacer_, targetPtr)
    /\ calls' = <<>>
    /\ last' = Returned("FetchPage", page_id, "page", "hit")
    /\ UNCHANGED <<page_id_, is_dirty_, data_, page_table_, free_list_,
                   next_page_id_, NDEBUG, aborted>>

\* lines 95-110: the page table does not have page_id
FetchPageMiss(page_id) ==
    LET v == GetVictimPage
        targetPtr == v.target
    IN  \/ AssertFails(v, "FetchPage", page_id)
        \/ /\ AssertPasses(v)
           /\ IF targetPtr = nullptr
              THEN /\ calls' = <<>>
                   /\ last' = Returned("FetchPage", page_id, "nullptr", v.from)
                   /\ UNCHANGED <<pool, next_page_id_>>
              ELSE /\ calls' = WriteBack(targetPtr) \o <<ReadPageCall(page_id)>>
                   /\ data_' = [data_ EXCEPT ![targetPtr] = Bytes]
                   /\ page_table_' = TableInsert(
                                        TableRemove(page_table_, page_id_[targetPtr]),
                                        page_id, targetPtr)
                   /\ pin_count_' = [pin_count_ EXCEPT ![targetPtr] = 1]
                   /\ is_dirty_' = [is_dirty_ EXCEPT ![targetPtr] = FALSE]
                   /\ page_id_' = [page_id_ EXCEPT ![targetPtr] = page_id]
                   /\ free_list_' = v.free
                   /\ replacer_' = v.repl
                   /\ last' = Returned("FetchPage", page_id, "page", v.from)
                   /\ UNCHANGED next_page_id_

FetchPage(page_id) ==
    /\ ~aborted
    /\ IF TableFind(page_table_, page_id) # nullptr
       THEN /\ pin_count_[TableFind(page_table_, page_id)] < MaxPin
            /\ FetchPageHit(page_id)
       ELSE FetchPageMiss(page_id)

\* ------------------------------------------------------------ UnpinPage
UnpinPage(page_id, is_dirty) ==
    LET targetPtr == TableFind(page_table_, page_id) IN
    /\ ~aborted
    /\ calls' = <<>>
    /\ IF targetPtr = nullptr
       THEN /\ last' = Returned("UnpinPage", page_id, "false", "none")
            /\ UNCHANGED <<pool, next_page_id_, NDEBUG, aborted>>
       ELSE /\ is_dirty_' = [is_dirty_ EXCEPT ![targetPtr] = is_dirty]
            /\ IF pin_count_[targetPtr] <= 0
               THEN /\ last' = Returned("UnpinPage", page_id, "false", "none")
                    /\ UNCHANGED <<pin_count_, replacer_>>
               ELSE /\ pin_count_' = [pin_count_ EXCEPT ![targetPtr] = @ - 1]
                    /\ replacer_' = IF pin_count_'[targetPtr] = 0
                                    THEN ReplacerInsert(replacer_, targetPtr)
                                    ELSE replacer_
                    /\ last' = Returned("UnpinPage", page_id, "true", "none")
            /\ UNCHANGED <<page_id_, data_, page_table_, free_list_,
                           next_page_id_, NDEBUG, aborted>>

\* ------------------------------------------------------------ FlushPage
FlushPage_KeepDirty(page_id) ==
    LET targetPtr == TableFind(page_table_, page_id) IN
    /\ ~aborted
    /\ IF targetPtr = nullptr \/ page_id_[targetPtr] = INVALID_PAGE_ID
       THEN /\ calls' = <<>>
            /\ last' = Returned("FlushPage", page_id, "false", "none")
       ELSE /\ calls' = IF is_dirty_[targetPtr]
                        THEN <<WritePageCall(page_id, data_[targetPtr])>>
                        ELSE <<>>
            /\ last' = Returned("FlushPage", page_id, "true", "none")
    /\ UNCHANGED <<pool, next_page_id_, NDEBUG, aborted>>

FlushPage_NotFoundSucceeds(page_id) ==
    LET targetPtr == TableFind(page_table_, page_id) IN
    /\ ~aborted
    /\ IF targetPtr = nullptr \/ page_id_[targetPtr] = INVALID_PAGE_ID
       THEN /\ calls' = <<>>
            /\ last' = Returned("FlushPage", page_id, "true", "none")
            /\ UNCHANGED <<pool, next_page_id_, NDEBUG, aborted>>
       ELSE /\ IF is_dirty_[targetPtr]
               THEN /\ calls' = <<WritePageCall(page_id, data_[targetPtr])>>
                    /\ is_dirty_' = [is_dirty_ EXCEPT ![targetPtr] = FALSE]
               ELSE /\ calls' = <<>>
                    /\ UNCHANGED is_dirty_
            /\ last' = Returned("FlushPage", page_id, "true", "none")
            /\ UNCHANGED <<page_id_, pin_count_, data_, page_table_, replacer_,
                           free_list_, next_page_id_, NDEBUG, aborted>>

FlushPage(page_id) ==
    LET targetPtr == TableFind(page_table_, page_id) IN
    /\ ~aborted
    /\ IF targetPtr = nullptr \/ page_id_[targetPtr] = INVALID_PAGE_ID
       THEN /\ calls' = <<>>
            /\ last' = Returned("FlushPage", page_id, "false", "none")
            /\ UNCHANGED <<pool, next_page_id_, NDEBUG, aborted>>
       ELSE /\ IF is_dirty_[targetPtr]
               THEN /\ calls' = <<WritePageCall(page_id, data_[targetPtr])>>
                    /\ is_dirty_' = [is_dirty_ EXCEPT ![targetPtr] = FALSE]
               ELSE /\ calls' = <<>>
                    /\ UNCHANGED is_dirty_
            /\ last' = Returned("FlushPage", page_id, "true", "none")
            /\ UNCHANGED <<page_id_, pin_count_, data_, page_table_, replacer_,
                           free_list_, next_page_id_, NDEBUG, aborted>>

\* ----------------------------------------------------------- DeletePage
\* if (targetPtr->GetPinCount() > 0) return false;
DeleteRefused_Never(targetPtr) == FALSE

DeleteRefused_NonNegative(targetPtr) == pin_count_[targetPtr] >= 0

DeleteRefused(targetPtr) == pin_count_[targetPtr] > 0

DeletePage(page_id) ==
    LET targetPtr == TableFind(page_table_, page_id) IN
    /\ ~aborted
    /\ IF targetPtr # nullptr
       THEN IF DeleteRefused(targetPtr)
            THEN /\ calls' = <<>>
                 /\ last' = Returned("DeletePage", page_id, "false", "none")
                 /\ UNCHANGED <<pool, next_page_id_, NDEBUG, aborted>>
            ELSE /\ replacer_' = ReplacerErase(replacer_, targetPtr)
                 /\ page_table_' = TableRemove(page_table_, page_id)
                 /\ is_dirty_' = [is_dirty_ EXCEPT ![targetPtr] = FALSE]
                 /\ data_' = [data_ EXCEPT ![targetPtr] = Zeroed]
                 /\ free_list_' = Append(free_list_, targetPtr)
                 /\ calls' = <<DeallocatePageCall(page_id)>>
                 /\ last' = Returned("DeletePage", page_id, "true", "none")
                 /\ UNCHANGED <<page_id_, pin_count_, next_page_id_,
                                NDEBUG, aborted>>
       ELSE /\ calls' = <<DeallocatePageCall(page_id)>>
            /\ last' = Returned("DeletePage", page_id, "true", "none")
            /\ UNCHANGED <<pool, next_page_id_, NDEBUG, aborted>>

\* -------------------------------------------------------------- NewPage
NewPage ==
    LET v == GetVictimPage
        targetPtr == v.target
        page_id == next_page_id_         \* what AllocatePage returns
    IN  /\ ~aborted
        /\ \/ AssertFails(v, "NewPage", INVALID_PAGE_ID)
           \/ /\ AssertPasses(v)
              /\ IF targetPtr = nullptr
                 THEN /\ calls' = <<>>
                      /\ last' = Returned("NewPage", INVALID_PAGE_ID, "nullptr", v.from)
                      /\ UNCHANGED <<pool, next_page_id_>>
                 ELSE /\ next_page_id_ < MaxPageId
                      /\ next_page_id_' = next_page_id_ + 1
                      /\ calls' = <<AllocatePageCall(page_id)>> \o WriteBack(targetPtr)
                      /\ page_table_' = TableInsert(
                                           TableRemove(page_table_, page_id_[targetPtr]),
                                           page_id, targetPtr)
                      /\ page_id_' = [page_id_ EXCEPT ![targetPtr] = page_id]
                      /\ data_' = [data_ EXCEPT ![targetPtr] = Zeroed]
                      /\ is_dirty_' = [is_dirty_ EXCEPT ![targetPtr] = FALSE]
                      /\ pin_count_' = [pin_count_ EXCEPT ![targetPtr] = 1]
                      /\ free_list_' = v.free
                      /\ replacer_' = v.repl
                      /\ last' = Returned("NewPage", page_id, "page", v.from)

\* ------------------------------------------------------------ the caller
\* A holder of a pinned page writes its contents in place through GetData().
WriteData(f) ==
    /\ ~aborted
    /\ pin_count_[f] > 0
    /\ data_[f] = Zeroed
    /\ data_' = [data_ EXCEPT ![f] = Bytes]
    /\ calls' = <<>>
    /\ last' = Returned("WriteData", page_id_[f], "none", "none")
    /\ UNCHANGED <<page_id_, pin_count_, is_dirty_, page_table_, replacer_, free_list_,
                   next_page_id_, NDEBUG, aborted>>

\* Callers pass the page ids the disk manager has handed out.
Allocated == 0..(next_page_id_ - 1)

\* History of the replacer_->Insert calls, kept beside the program: the step
\* just taken called Insert(f) when it was an UnpinPage that returned true and
\* brought pin_count to 0 (lines 134-135); f then becomes the newest entry.
\* Frames the replacer no longer tracks after the step are dropped.
InsertCalled ==
    /\ last'.op = "UnpinPage"
    /\ last'.ret = "true"
    /\ pin_count_'[TableFind(page_table_, last'.page_id)] = 0

History ==
    LET f == TableFind(page_table_, last'.page_id)
        order == IF InsertCalled THEN Append(SeqRemove(inserted, f), f)
                                 ELSE inserted
    IN  inserted' = SelectSeq(order, LAMBDA x : InSeq(replacer_', x))

\* One call of an operation, start to return.
Operation ==
    \/ \E id \in Allocated : FetchPage(id)
    \/ \E id \in Allocated : \E d \in BOOLEAN : UnpinPage(id, d)
    \/ \E id \in Allocated : FlushPage(id)
    \/ \E id \in Allocated : DeletePage(id)
    \/ NewPage
    \/ \E f \in Frames : WriteData(f)

\* One caller: the operations run one after the other.
Serial == History /\ UNCHANGED tvars

Next ==
    \/ \E id \in Allocated : FetchPage(id) /\ Serial
    \/ \E id \in Allocated : \E d \in BOOLEAN : UnpinPage(id, d) /\ Serial
    \/ \E id \in Allocated : FlushPage(id) /\ Serial
    \/ \E id \in Allocated : DeletePage(id) /\ Serial
    \/ NewPage /\ Serial
    \/ \E f \in Frames : WriteData(f) /\ Serial

\* The default build: assert() is compiled in.
Spec == Init /\ [][Next]_vars

\* The build with NDEBUG defined: assert() expands to nothing.
InitNDEBUG ==
    /\ page_id_ = [f \in Frames |-> INVALID_PAGE_ID]
    /\ pin_count_ = [f \in Frames |-> 0]
    /\ is_dirty_ = [f \in Frames |-> FALSE]
    /\ data_ = [f \in Frames |-> Zeroed]
    /\ page_table_ = [id \in PageIds |-> nullptr]
    /\ replacer_ = <<>>
    /\ free_list_ = [i \in 1..PoolSize |-> i]
    /\ next_page_id_ = 0
    /\ NDEBUG = TRUE
    /\ aborted = FALSE
    /\ calls = <<>>
    /\ last = Returned("init", INVALID_PAGE_ID, "none", "none")
    /\ inserted = <<>>
    /\ NoThreads

SpecNDEBUG == InitNDEBUG /\ [][Next]_vars

\* ================================================================ threads
\* The operations statement by statement.  A step is the code between two
\* calls into the replacer or the disk manager.
\* pc and req of thread t after a statement
Goto(t, p) == pc' = [pc EXCEPT ![t] = p]

Return(t, ret, from) ==
    /\ pc' = [pc EXCEPT ![t] = "unlock"]
    /\ req' = [req EXCEPT ![t].ret = ret, ![t].from = from]

At(t, op, p) == ~aborted /\ pc[t] = p /\ req[t].op \in op

\* A thread calls an operation and arrives at its lock_guard.
CallOperation(t) ==
    /\ ~aborted
    /\ pc[t] = "idle"
    /\ ncalls < MaxCalls
    /\ ncalls' = ncalls + 1
    /\ Goto(t, "lock")
    /\ UNCHANGED <<vars, latch_, replacer_latch, req, mem>>

\* lock_guard<mutex> lck(latch_): blocks until the latch is free, then holds it.
lock_guard_NoWait(t) == latch_' = t

lock_guard(t) == latch_ = NoThread /\ latch_' = t

\* The operation and arguments a thread enters with: page ids handed out so
\* far, pin counts up to MaxPin, page ids up to MaxPageId.
Enterable(op, id) ==
    /\ op # "NewPage" => id \in 0..(mem.next_page_id_ - 1)
    /\ op = "NewPage" =>
          /\ id = INVALID_PAGE_ID
          /\ \/ mem.next_page_id_ < MaxPageId
             \/ mem.free_list_ = <<>> /\ mem.replacer_ = <<>>
    /\ (op = "FetchPage" /\ TableFind(mem.page_table_, id) # nullptr) =>
          mem.pin_count_[TableFind(mem.page_table_, id)] < MaxPin

Lock(t) ==
    /\ ~aborted
    /\ pc[t] = "lock"
    /\ lock_guard(t)
    /\ \E op \in {"FetchPage", "UnpinPage", "FlushPage", "DeletePage", "NewPage"} :
       \E id \in PageIds \cup {INVALID_PAGE_ID} :
       \E d \in BOOLEAN :
          /\ Enterable(op, id)
          /\ op # "UnpinPage" => d = FALSE
          /\ req' = [req EXCEPT ![t] = [op |-> op, page_id |-> id, is_dirty |-> d,
                                        targetPtr |-> nullptr, ret |-> "none",
                                        from |-> "none"]]
          /\ Goto(t, IF op = "NewPage" THEN "victim" ELSE "find")
    /\ mem' = [mem EXCEPT !.calls = <<>>]
    /\ UNCHANGED <<vars, replacer_latch, ncalls>>

\* The operation returns: ~lock_guard releases the latch, and the pool as this
\* operation leaves it becomes the pool the next one finds.
Completed(t) ==
    /\ page_id_' = mem.page_id_
    /\ pin_count_' = mem.pin_count_
    /\ is_dirty_' = mem.is_dirty_
    /\ data_' = mem.data_
    /\ page_table_' = mem.page_table_
    /\ replacer_' = mem.replacer_
    /\ free_list_' = mem.free_list_
    /\ next_page_id_' = mem.next_page_id_
    /\ calls' = mem.calls
    /\ last' = Returned(req[t].op, req[t].page_id, req[t].ret, req[t].from)
    /\ History

Unlock(t) ==
    /\ ~aborted
    /\ pc[t] = "unlock"
    /\ latch_' = NoThread
    /\ Completed(t)
    /\ Goto(t, "idle")
    /\ req' = [req EXCEPT ![t] = NoCall]
    /\ UNCHANGED <<NDEBUG, aborted, replacer_latch, mem, ncalls>>

\* A failed assert() in a build with assertions: abort() ends the process with
\* the latch held.
Abort(t, m, from) ==
    /\ aborted' = TRUE
    /\ mem' = m
    /\ page_id_' = m.page_id_
    /\ pin_count_' = m.pin_count_
    /\ is_dirty_' = m.is_dirty_
    /\ data_' = m.data_
    /\ page_table_' = m.page_table_
    /\ replacer_' = m.replacer_
    /\ free_list_' = m.free_list_
    /\ next_page_id_' = m.next_page_id_
    /\ calls' = <<>>
    /\ last' = Returned(req[t].op, req[t].page_id, "abort", from)
    /\ History
    /\ UNCHANGED <<NDEBUG, latch_, pc, req, ncalls>>

\* LRUReplacer's methods hold the replacer's own latch (lru_replacer.h:52)
\* from entry to return.
ReplacerEnter(t, p) ==
    /\ replacer_latch = NoThread
    /\ replacer_latch' = t
    /\ Goto(t, p)

ReplacerLeave(t) == replacer_latch' = NoThread

\* ---- FetchPage, lines 88-89: Find, and pin_count_++ on a hit
FetchPage_Find(t) ==
    LET f == TableFind(mem.page_table_, req[t].page_id) IN
    /\ At(t, {"FetchPage"}, "find")
    /\ IF f # nullptr
       THEN /\ mem' = [mem EXCEPT !.pin_count_[f] = @ + 1]
            /\ req' = [req EXCEPT ![t].targetPtr = f]
            /\ Goto(t, "erase")
       ELSE /\ Goto(t, "victim")
            /\ UNCHANGED <<mem, req>>
    /\ UNCHANGED <<vars, latch_, replacer_latch, ncalls>>

\* ---- line 90 (FetchPage) and line 185 (DeletePage): replacer_->Erase(targetPtr)
Erase_Enter(t) ==
    /\ At(t, {"FetchPage", "DeletePage"}, "erase")
    /\ ReplacerEnter(t, "erasing")
    /\ UNCHANGED <<vars, latch_, req, mem, ncalls>>

Erase_Leave(t) ==
    /\ At(t, {"FetchPage", "DeletePage"}, "erasing")
    /\ mem' = [mem EXCEPT !.replacer_ = ReplacerErase(@, req[t].targetPtr)]
    /\ ReplacerLeave(t)
    /\ IF req[t].op = "FetchPage"
       THEN Return(t, "page", "hit")
       ELSE (Goto(t, "reset") /\ UNCHANGED req)
    /\ UNCHANGED <<vars, latch_, ncalls>>

\* ---- GetVictimPage, lines 45 and 59-65: the free list is not empty
GetVictimPage_Free(t) ==
    LET target == Head(mem.free_list_)
        m == [mem EXCEPT !.free_list_ = Tail(@)]
        asserts == /\ mem.page_id_[target] = INVALID_PAGE_ID
                   /\ mem.pin_count_[target] = 0
    IN  /\ At(t, {"FetchPage", "NewPage"}, "victim")
        /\ mem.free_list_ # <<>>
        /\ IF ~asserts /\ ~NDEBUG
           THEN Abort(t, m, "free") /\ UNCHANGED replacer_latch
           ELSE /\ mem' = m
                /\ req' = [req EXCEPT ![t].targetPtr = target, ![t].from = "free"]
                /\ Goto(t, IF req[t].op = "NewPage" THEN "allocate" ELSE "writeback")
                /\ UNCHANGED <<vars, latch_, replacer_latch, ncalls>>

\* ---- GetVictimPage, lines 45-57: the free list is empty, ask the replacer
GetVictimPage_Enter(t) ==
    /\ At(t, {"FetchPage", "NewPage"}, "victim")
    /\ mem.free_list_ = <<>>
    /\ ReplacerEnter(t, "victimizing")
    /\ UNCHANGED <<vars, latch_, req, mem, ncalls>>

GetVictimPage_Leave(t) ==
    LET v == ReplacerVictim(mem.replacer_)
        m == [mem EXCEPT !.replacer_ = v.rest]
    IN  /\ At(t, {"FetchPage", "NewPage"}, "victimizing")
        /\ IF ReplacerSize(mem.replacer_) = 0
           THEN /\ ReplacerLeave(t)
                /\ Return(t, "nullptr", "none")
                /\ UNCHANGED <<vars, latch_, mem, ncalls>>
           ELSE IF mem.pin_count_[v.value] # 0 /\ ~NDEBUG
           THEN Abort(t, m, "replacer") /\ ReplacerLeave(t)
           ELSE /\ mem' = m
                /\ ReplacerLeave(t)
                /\ req' = [req EXCEPT ![t].targetPtr = v.value,
                                      ![t].from = "replacer"]
                /\ Goto(t, IF req[t].op = "NewPage" THEN "allocate" ELSE "writeback")
                /\ UNCHANGED <<vars, latch_, ncalls>>

\* ---- NewPage, line 210: page_id = disk_manager_->AllocatePage()
NewPage_Allocate(t) ==
    /\ At(t, {"NewPage"}, "allocate")
    /\ mem' = [mem EXCEPT !.next_page_id_ = @ + 1,
                          !.calls = Append(@, AllocatePageCall(mem.next_page_id_))]
    /\ req' = [req EXCEPT ![t].page_id = mem.next_page_id_]
    /\ Goto(t, "writeback")
    /\ UNCHANGED <<vars, latch_, replacer_latch, ncalls>>

\* ---- lines 98-100 (FetchPage) and 212-214 (NewPage): write a dirty victim back
WriteBack_Call(t) ==
    LET targetPtr == req[t].targetPtr IN
    /\ At(t, {"FetchPage", "NewPage"}, "writeback")
    /\ mem' = IF mem.is_dirty_[targetPtr]
              THEN [mem EXCEPT !.calls = Append(@, WritePageCall(mem.page_id_[targetPtr],
                                                                 mem.data_[targetPtr]))]
              ELSE mem
    /\ Goto(t, "install")
    /\ UNCHANGED <<vars, latch_, replacer_latch, req, ncalls>>

\* ---- FetchPage, lines 103-112
FetchPage_Install(t) ==
    LET targetPtr == req[t].targetPtr
        page_id == req[t].page_id
    IN  /\ At(t, {"FetchPage"}, "install")
        /\ mem' = [mem EXCEPT
                     !.page_table_ = TableInsert(TableRemove(@, mem.page_id_[targetPtr]),
                                                 page_id, targetPtr),
                     !.calls = Append(@, ReadPageCall(page_id)),
                     !.data_[targetPtr] = Bytes,
                     !.pin_count_[targetPtr] = 1,
                     !.is_dirty_[targetPtr] = FALSE,
                     !.page_id_[targetPtr] = page_id]
        /\ Return(t, "page", req[t].from)
        /\ UNCHANGED <<vars, latch_, replacer_latch, ncalls>>

\* ---- NewPage, lines 215-222
NewPage_Install(t) ==
    LET targetPtr == req[t].targetPtr
        page_id == req[t].page_id
    IN  /\ At(t, {"NewPage"}, "install")
        /\ mem' = [mem EXCEPT
                     !.page_table_ = TableInsert(TableRemove(@, mem.page_id_[targetPtr]),
                                                 page_id, targetPtr),
                     !.page_id_[targetPtr] = page_id,
                     !.data_[targetPtr] = Zeroed,
                     !.is_dirty_[targetPtr] = FALSE,
                     !.pin_count_[targetPtr] = 1]
        /\ Return(t, "page", req[t].from)
        /\ UNCHANGED <<vars, latch_, replacer_latch, ncalls>>

\* ---- UnpinPage, lines 124-134
UnpinPage_Find(t) ==
    LET f == TableFind(mem.page_table_, req[t].page_id)
        m == [mem EXCEPT !.is_dirty_[f] = req[t].is_dirty]
    IN  /\ At(t, {"UnpinPage"}, "find")
        /\ IF f = nullptr
           THEN /\ Return(t, "false", "none")
                /\ UNCHANGED mem
           ELSE IF mem.pin_count_[f] <= 0
           THEN /\ mem' = m
                /\ Return(t, "false", "none")
           ELSE /\ mem' = [m EXCEPT !.pin_count_[f] = @ - 1]
                /\ IF mem.pin_count_[f] - 1 = 0
                   THEN /\ req' = [req EXCEPT ![t].targetPtr = f]
                        /\ Goto(t, "insert")
                   ELSE Return(t, "true", "none")
        /\ UNCHANGED <<vars, latch_, replacer_latch, ncalls>>

\* ---- UnpinPage, lines 135-137: replacer_->Insert(targetPtr)
Insert_Enter(t) ==
    /\ At(t, {"UnpinPage"}, "insert")
    /\ ReplacerEnter(t, "inserting")
    /\ UNCHANGED <<vars, latch_, req, mem, ncalls>>

Insert_Leave(t) ==
    /\ At(t, {"UnpinPage"}, "inserting")
    /\ mem' = [mem EXCEPT !.replacer_ = ReplacerInsert(@, req[t].targetPtr)]
    /\ ReplacerLeave(t)
    /\ Return(t, "true", "none")
    /\ UNCHANGED <<vars, latch_, ncalls>>

\* ---- FlushPage, lines 151-156
FlushPage_Find(t) ==
    LET f == TableFind(mem.page_table_, req[t].page_id) IN
    /\ At(t, {"FlushPage"}, "find")
    /\ IF f = nullptr \/ mem.page_id_[f] = INVALID_PAGE_ID
       THEN Return(t, "false", "none")
       ELSE /\ req' = [req EXCEPT ![t].targetPtr = f]
            /\ Goto(t, "flush")
    /\ UNCHANGED <<vars, latch_, replacer_latch, mem, ncalls>>

\* ---- FlushPage, lines 158-163
FlushPage_Write(t) ==
    LET targetPtr == req[t].targetPtr IN
    /\ At(t, {"FlushPage"}, "flush")
    /\ mem' = IF mem.is_dirty_[targetPtr]
              THEN [mem EXCEPT !.calls = Append(@, WritePageCall(req[t].page_id,
                                                                 mem.data_[targetPtr])),
                               !.is_dirty_[targetPtr] = FALSE]
              ELSE mem
    /\ Return(t, "true", "none")
    /\ UNCHANGED <<vars, latch_, replacer_latch, ncalls>>

\* ---- DeletePage, lines 178-184
DeletePage_Find(t) ==
    LET f == TableFind(mem.page_table_, req[t].page_id) IN
    /\ At(t, {"DeletePage"}, "find")
    /\ IF f = nullptr
       THEN (Goto(t, "dealloc") /\ UNCHANGED req)
       ELSE IF mem.pin_count_[f] > 0
       THEN Return(t, "false", "none")
       ELSE /\ req' = [req EXCEPT ![t].targetPtr = f]
            /\ Goto(t, "erase")
    /\ UNCHANGED <<vars, latch_, replacer_latch, mem, ncalls>>

\* ---- DeletePage, lines 186-189
DeletePage_Reset(t) ==
    LET targetPtr == req[t].targetPtr IN
    /\ At(t, {"DeletePage"}, "reset")
    /\ mem' = [mem EXCEPT !.page_table_ = TableRemove(@, req[t].page_id),
                          !.is_dirty_[targetPtr] = FALSE,
                          !.data_[targetPtr] = Zeroed,
                          !.free_list_ = Append(@, targetPtr)]
    /\ Goto(t, "dealloc")
    /\ UNCHANGED <<vars, latch_, replacer_latch, req, ncalls>>

\* ---- DeletePage, lines 191-192
DeletePage_Deallocate(t) ==
    /\ At(t, {"DeletePage"}, "dealloc")
    /\ mem' = [mem EXCEPT !.calls = Append(@, DeallocatePageCall(req[t].page_id))]
    /\ Return(t, "true", "none")
    /\ UNCHANGED <<vars, latch_, replacer_latch, ncalls>>

\* One statement of the operation thread t is in.
Statement(t) ==
    \/ FetchPage_Find(t)
    \/ Erase_Enter(t)
    \/ Erase_Leave(t)
    \/ GetVictimPage_Free(t)
    \/ GetVictimPage_Enter(t)
    \/ GetVictimPage_Leave(t)
    \/ NewPage_Allocate(t)
    \/ WriteBack_Call(t)
    \/ FetchPage_Install(t)
    \/ NewPage_Install(t)
    \/ UnpinPage_Find(t)
    \/ Insert_Enter(t)
    \/ Insert_Leave(t)
    \/ FlushPage_Find(t)
    \/ FlushPage_Write(t)
    \/ DeletePage_Find(t)
    \/ DeletePage_Reset(t)
    \/ DeletePage_Deallocate(t)

ThreadNext ==
    \/ \E t \in Threads : CallOperation(t)
    \/ \E t \in Threads : Lock(t)
    \/ \E t \in Threads : Statement(t)
    \/ \E t \in Threads : Unlock(t)

\* Threads on the default build, and on the build with NDEBUG defined.
SpecThreads == Init /\ [][ThreadNext]_allvars

SpecThreadsNDEBUG == InitNDEBUG /\ [][ThreadNext]_allvars

\* A thread that can run does run (the scheduler), and a thread waiting for the
\* latch gets it when it is released often enough (the mutex).
Fairness ==
    \A t \in Threads :
       /\ WF_allvars(Statement(t))
       /\ WF_allvars(Unlock(t))
       /\ SF_allvars(Lock(t))

SpecThreadsFair == SpecThreads /\ Fairness

SpecThreadsFairNDEBUG == SpecThreadsNDEBUG /\ Fairness

\* ------------------------------------------------------ frame states (spec 3)
Mapped(f) == \E id \in DOMAIN page_table_ : page_table_[id] = f

Tracked(f) == InSeq(replacer_, f)

IsFree(f) == InSeq(free_list_, f)

ResidentUnpinned(f) ==
    /\ page_id_[f] # INVALID_PAGE_ID
    /\ Mapped(f)
    /\ pin_count_[f] = 0

\* The frame a successful FetchPage or NewPage has just handed out.
LastFrame == TableFind(page_table_, last.page_id)

\* ================================================================= claims
\* A step is recognised by the record it leaves in last: the operation, its
\* page id, what it returned and where its frame came from.
FetchOrNew(l) == l.op \in {"FetchPage", "NewPage"}

\* FetchPage on a page id that is not in the page table, or NewPage.
NeedsFrame(l) == FetchOrNew(l) /\ l.from # "hit"

\* Such a step that got a frame and reused it.
ReusedFrame(l) == NeedsFrame(l) /\ l.ret = "page"

WritesOf(c) == SelectSeq(c, LAMBDA x : x.fn = "WritePage")

InUse(f) == pin_count_[f] > 0 \/ Tracked(f) \/ Mapped(f)

\* ---------------------------------------------------------------------- C1
\* C1 (eviction eligibility equivalence): in every reachable state the frames
\* tracked by the replacer are exactly the Resident-Unpinned frames (valid
\* page id, mapped in the page table, pin_count = 0).
C1_EvictionEligibility ==
    {f \in Frames : Tracked(f)} = {f \in Frames : ResidentUnpinned(f)}

\* ---------------------------------------------------------------------- C2
VictimUnpinned ==
    GetVictimPage.target # nullptr => pin_count_[GetVictimPage.target] = 0

PinnedKeepsPage ==
    \A f \in Frames : pin_count_[f] > 0 => page_id_'[f] = page_id_[f]

\* C2 (only unpinned pages are evicted): in every reachable state the frame
\* GetVictimPage would return has pin_count = 0, the frame a Fetch-miss or
\* NewPage reuses had pin_count = 0, and no step changes the page id of a frame
\* whose pin_count is above 0.
C2_OnlyUnpinnedEvicted ==
    /\ []VictimUnpinned
    /\ [][/\ PinnedKeepsPage
          /\ ReusedFrame(last') => pin_count_[LastFrame'] = 0]_vars

\* A page was evicted from the replacer while the other frame stayed pinned.
C2_Witness ==
    /\ ReusedFrame(last)
    /\ last.from = "replacer"
    /\ \E g \in Frames : g # LastFrame /\ pin_count_[g] > 0 /\ Mapped(g)

\* ---------------------------------------------------------------------- C3
\* C3 (single residency): every page id is the key of at most one page-table
\* entry, and no two frames in use (pinned, tracked by the replacer or mapped)
\* hold the same valid page id.
C3_SingleResidency ==
    /\ \A id \in PageIds : Cardinality({f \in Frames : page_table_[id] = f}) <= 1
    /\ \A f, g \in Frames :
          (f # g /\ InUse(f) /\ InUse(g) /\ page_id_[f] # INVALID_PAGE_ID)
             => page_id_[f] # page_id_[g]

\* ---------------------------------------------------------------------- C4
\* C4 (dirty write-back on eviction): a Fetch-miss or NewPage that reuses a
\* dirty frame makes exactly one WritePage call, with the frame's old page id
\* and the contents it had before the call, ahead of ReadPage in FetchPage;
\* reusing a clean frame makes no WritePage call.
C4_DirtyWriteBack ==
    [][ReusedFrame(last') =>
         LET f == LastFrame' IN
         IF is_dirty_[f]
         THEN /\ WritesOf(calls') = <<WritePageCall(page_id_[f], data_[f])>>
              /\ last'.op = "FetchPage" =>
                    /\ Len(calls') = 2
                    /\ calls'[1].fn = "WritePage"
                    /\ calls'[2] = ReadPageCall(last'.page_id)
         ELSE WritesOf(calls') = <<>>]_vars

\* FetchPage has evicted a dirty page whose contents a caller had written.
C4_Witness ==
    /\ ReusedFrame(last)
    /\ last.op = "FetchPage"
    /\ last.from = "replacer"
    /\ Len(calls) = 2
    /\ calls[1].fn = "WritePage"
    /\ calls[1].data = Bytes
    /\ calls[1].id # last.page_id

\* ---------------------------------------------------------------------- C5
\* C5 (sticky dirty flag): no UnpinPage call on a resident page whose dirty
\* flag is set clears the flag, whatever its is_dirty argument.
C5_StickyDirty ==
    [][(/\ last'.op = "UnpinPage"
        /\ TableFind(page_table_, last'.page_id) # nullptr
        /\ is_dirty_[TableFind(page_table_, last'.page_id)])
         => is_dirty_'[TableFind(page_table_, last'.page_id)]]_vars

\* ---------------------------------------------------------------------- C6
\* C6 (pin monotonicity): pin_count never goes below 0, and UnpinPage on a
\* resident page whose pin_count is 0 returns false and leaves the frames, the
\* page table, the replacer and the free list as they were.
C6_PinMonotonicity ==
    [][/\ \A f \in Frames : pin_count_'[f] >= 0
       /\ (/\ last'.op = "UnpinPage"
           /\ TableFind(page_table_, last'.page_id) # nullptr
           /\ pin_count_[TableFind(page_table_, last'.page_id)] = 0)
            => (last'.ret = "false" /\ UNCHANGED pool)]_vars

\* ---------------------------------------------------------------------- C7
FreeState(f) ==
    /\ page_id_[f] = INVALID_PAGE_ID
    /\ Count(free_list_, f) = 1
    /\ ~Mapped(f)
    /\ ~Tracked(f)

ResidentPinnedState(f) ==
    /\ page_id_[f] # INVALID_PAGE_ID
    /\ Mapped(f)
    /\ pin_count_[f] >= 1
    /\ ~Tracked(f)
    /\ ~IsFree(f)

ResidentUnpinnedState(f) ==
    /\ page_id_[f] # INVALID_PAGE_ID
    /\ Mapped(f)
    /\ pin_count_[f] = 0
    /\ Count(replacer_, f) = 1
    /\ ~IsFree(f)

\* C7 (frame state partition): while the process runs, every frame is Free,
\* Resident-Pinned or Resident-Unpinned; a frame on the free list has page id
\* INVALID_PAGE_ID.
C7_FrameStatePartition ==
    ~aborted =>
       \A f \in Frames :
          FreeState(f) \/ ResidentPinnedState(f) \/ ResidentUnpinnedState(f)

\* ---------------------------------------------------------------------- C8
\* C8 (free-first victim order): when the free list is not empty, a Fetch-miss
\* or NewPage takes the front of the free list, leaves the replacer as it was
\* and changes no other frame.
C8_FreeFirst ==
    [][(NeedsFrame(last') /\ free_list_ # <<>>) =>
         /\ last'.from = "free"
         /\ free_list_' = Tail(free_list_)
         /\ replacer_' = replacer_
         /\ last'.ret = "page" => LastFrame' = Head(free_list_)
         /\ \A g \in Frames \ {Head(free_list_)} :
               /\ page_id_'[g] = page_id_[g]
               /\ pin_count_'[g] = pin_count_[g]
               /\ is_dirty_'[g] = is_dirty_[g]
               /\ data_'[g] = data_[g]]_vars

\* A frame was taken from the free list while the replacer tracked a frame.
C8_Witness ==
    /\ ReusedFrame(last)
    /\ last.from = "free"
    /\ replacer_ # <<>>

\* ---------------------------------------------------------------------- C9
\* C9 (exhaustion): a Fetch-miss or NewPage returns nullptr exactly when the
\* free list and the replacer are both empty, and then changes nothing of the
\* pool and calls the disk manager not at all.
C9_Exhaustion ==
    [][NeedsFrame(last') =>
         /\ (last'.ret = "nullptr") <=> (free_list_ = <<>> /\ replacer_ = <<>>)
         /\ last'.ret = "nullptr" =>
               (UNCHANGED <<pool, next_page_id_>> /\ calls' = <<>>)]_vars

\* A request failed with every frame pinned.
C9_Witness ==
    /\ NeedsFrame(last)
    /\ last.ret = "nullptr"
    /\ \A f \in Frames : pin_count_[f] > 0

\* --------------------------------------------------------------------- C10
\* C10 (delete atomicity): DeletePage on a resident page with pin_count > 0
\* returns false and leaves the page table, the replacer, the free list and
\* every frame's page id, pin count, dirty flag and contents as they were.
C10_DeleteAtomicity ==
    [][(/\ last'.op = "DeletePage"
        /\ TableFind(page_table_, last'.page_id) # nullptr
        /\ pin_count_[TableFind(page_table_, last'.page_id)] > 0)
         => (last'.ret = "false" /\ UNCHANGED pool)]_vars

\* DeletePage was refused on a pinned page with written contents.
C10_Witness ==
    /\ last.op = "DeletePage"
    /\ last.ret = "false"
    /\ LastFrame # nullptr
    /\ pin_count_[LastFrame] > 0
    /\ data_[LastFrame] = Bytes

\* --------------------------------------------------------------------- C11
\* C11 (deallocation always requested): every DeletePage(id) call makes the
\* disk manager call DeallocatePage(id), whether id is resident and unpinned,
\* resident and pinned, or not resident.
C11_DeallocateAlways ==
    [][last'.op = "DeletePage" =>
         calls' = <<DeallocatePageCall(last'.page_id)>>]_vars

\* --------------------------------------------------------------------- C12
\* C12 (delete fails only when pinned): DeletePage returns false exactly when
\* the id is resident with pin_count > 0 and true otherwise; on an id that is
\* not resident it leaves the frames, the free list, the page table and the
\* replacer as they were and only calls DeallocatePage; after a successful
\* DeletePage the id is not resident, so a repeated DeletePage succeeds again.
C12_DeleteFailsOnlyPinned ==
    [][last'.op = "DeletePage" =>
         LET id == last'.page_id
             f == TableFind(page_table_, id)
         IN  /\ last'.ret \in {"true", "false"}
             /\ (last'.ret = "false") <=> (f # nullptr /\ pin_count_[f] > 0)
             /\ f = nullptr =>
                   (UNCHANGED pool /\ calls' = <<DeallocatePageCall(id)>>)
             /\ last'.ret = "true" => TableFind(page_table_', id) = nullptr]_vars

\* DeletePage succeeded on a page that had been evicted: no frame holds it.
C12_Witness ==
    /\ last.op = "DeletePage"
    /\ last.ret = "true"
    /\ calls = <<DeallocatePageCall(last.page_id)>>
    /\ \A f \in Frames : page_id_[f] # last.page_id
    /\ \E f \in Frames : pin_count_[f] > 0

\* --------------------------------------------------------------------- C13
\* C13 (FlushPage): FlushPage on a resident page returns true whatever its
\* pin_count; a dirty frame gets exactly one WritePage call with that id and
\* its contents and its dirty flag cleared, a clean frame gets no call; page
\* ids, pin counts, contents, page table, replacer and free list stay as they
\* were.
C13_FlushPage ==
    [][(/\ last'.op = "FlushPage"
        /\ TableFind(page_table_, last'.page_id) # nullptr) =>
         LET id == last'.page_id
             f == TableFind(page_table_, id)
         IN  /\ last'.ret = "true"
             /\ calls' = IF is_dirty_[f] THEN <<WritePageCall(id, data_[f])>>
                                         ELSE <<>>
             /\ is_dirty_' = [is_dirty_ EXCEPT ![f] = FALSE]
             /\ UNCHANGED <<page_id_, pin_count_, data_, page_table_,
                            replacer_, free_list_>>]_vars

\* A pinned dirty page was flushed: one write, flag cleared, still pinned.
C13_Witness ==
    /\ last.op = "FlushPage"
    /\ last.ret = "true"
    /\ Len(calls) = 1
    /\ calls[1].fn = "WritePage"
    /\ LastFrame # nullptr
    /\ pin_count_[LastFrame] > 0
    /\ ~is_dirty_[LastFrame]

\* --------------------------------------------------------------------- C14
\* C14 (NotFound): UnpinPage and FlushPage on an id with no page-table entry
\* return false, change nothing of the pool and make no disk manager call.
C14_NotFound ==
    [][(/\ last'.op \in {"UnpinPage", "FlushPage"}
        /\ TableFind(page_table_, last'.page_id) = nullptr) =>
         /\ last'.ret = "false"
         /\ calls' = <<>>
         /\ UNCHANGED <<pool, next_page_id_>>]_vars

\* FlushPage failed on a page that is not resident while a resident page is
\* dirty.
C14_Witness ==
    /\ last.op = "FlushPage"
    /\ last.ret = "false"
    /\ TableFind(page_table_, last.page_id) = nullptr
    /\ \E f \in Frames : Mapped(f) /\ is_dirty_[f]

\* --------------------------------------------------------------------- C17
\* C17 (LRU eviction order): when the free list is empty and some frame is
\* tracked, a Fetch-miss or NewPage gets the tracked frame whose latest
\* replacer Insert is oldest; when no frame is tracked it gets none.
C17_LruOrder ==
    [][(NeedsFrame(last') /\ free_list_ = <<>>) =>
         IF inserted # <<>>
         THEN /\ last'.ret = "page"
              /\ last'.from = "replacer"
              /\ LastFrame' = Head(inserted)
         ELSE last'.ret = "nullptr"]_vars

\* A frame was evicted while another, inserted later, stayed tracked.
C17_Witness ==
    /\ ReusedFrame(last)
    /\ last.from = "replacer"
    /\ inserted # <<>>
    /\ free_list_ = <<>>

\* --------------------------------------------------------------------- C18
\* C18 (fetch hit): FetchPage on an id that has a page-table entry returns the
\* frame mapped to it, adds exactly 1 to its pin_count, takes it out of the
\* replacer (the others keep their order) and changes nothing else; it calls
\* the disk manager not at all.
C18_FetchHit ==
    [][(/\ last'.op = "FetchPage"
        /\ TableFind(page_table_, last'.page_id) # nullptr) =>
         LET f == TableFind(page_table_, last'.page_id)
         IN  /\ last'.ret = "page"
             /\ LastFrame' = f
             /\ pin_count_' = [pin_count_ EXCEPT ![f] = pin_count_[f] + 1]
             /\ replacer_' = SelectSeq(replacer_, LAMBDA x : x # f)
             /\ calls' = <<>>
             /\ UNCHANGED <<page_id_, is_dirty_, data_, page_table_, free_list_,
                            next_page_id_>>]_vars

\* A tracked dirty page with written contents was fetched again while the
\* other frame stayed tracked.
C18_Witness ==
    /\ last.op = "FetchPage"
    /\ last.from = "hit"
    /\ pin_count_[LastFrame] = 1
    /\ is_dirty_[LastFrame]
    /\ data_[LastFrame] = Bytes
    /\ ~Tracked(LastFrame)
    /\ replacer_ # <<>>

\* --------------------------------------------------------------------- C19
\* C19 (free-list assertion): no call dies in GetVictimPage, and the frame at
\* the front of the free list, which the next GetVictimPage pops and asserts
\* on (line 63), has page id INVALID_PAGE_ID.
C19_FreeListAssertion ==
    /\ ~aborted
    /\ free_list_ # <<>> => page_id_[Head(free_list_)] = INVALID_PAGE_ID

\* --------------------------------------------------------------------- C20
FreePlaced(f) ==
    /\ Count(free_list_, f) = 1
    /\ ~Mapped(f)

MappedPlaced(f) ==
    /\ Count(free_list_, f) = 0
    /\ Cardinality({id \in DOMAIN page_table_ : page_table_[id] = f}) = 1
    /\ TableFind(page_table_, page_id_[f]) = f

\* C20 (frame conservation): while the process runs, every frame is either on
\* the free list exactly once or the value of exactly one page-table entry,
\* whose key is the frame's page id; the free-list length and the number of
\* page-table entries add up to pool_size.
C20_FrameConservation ==
    ~aborted =>
       /\ \A f \in Frames : FreePlaced(f) \/ MappedPlaced(f)
       /\ Len(free_list_)
            + Cardinality({id \in DOMAIN page_table_ : page_table_[id] # nullptr})
          = PoolSize

\* --------------------------------------------------------------------- C15
\* At most one thread is inside an operation, and it holds the latch.
OneAtATime ==
    /\ \A t, u \in Threads : (InBody(t) /\ InBody(u)) => t = u
    /\ \A t \in Threads : InBody(t) => latch_ = t

\* A thread that gets the latch finds the pool as the last completed operation
\* left it: nothing of an operation in progress.
EntersOnCompleted ==
    \A t \in Threads : (pc[t] = "lock" /\ InBody(t)') => mem' = Memory

\* C15 (mutual exclusion): at most one thread at a time is inside the body of
\* an operation and it holds latch_ for all of it, disk calls included; a
\* thread entering an operation sees no partial update of another; and every
\* operation that returns leaves the pool, its disk calls and its result as
\* that operation run alone on the pool the previous one left would, so the
\* run is a serial order of the same calls.
C15_MutualExclusion ==
    /\ []OneAtATime
    /\ [][EntersOnCompleted]_allvars
    /\ [][Operation]_vars

\* One thread is half way through an operation, the page table already
\* changed, while the other waits for the latch.
C15_Witness ==
    \E t, u \in Threads :
       /\ t # u
       /\ InBody(t)
       /\ pc[u] = "lock"
       /\ mem.page_table_ # page_table_
       /\ mem.calls = <<>>

\* --------------------------------------------------------------------- C16
\* C16 (lock release, no deadlock): under fair scheduling every operation a
\* thread has called returns and leaves the latch released, whichever exit it
\* takes; and the replacer's latch is held only by the thread that holds the
\* pool latch.
C16_LockRelease ==
    /\ [](replacer_latch # NoThread => latch_ = replacer_latch)
    /\ \A t \in Threads : (pc[t] # "idle") ~> (pc[t] = "idle" /\ latch_ # t)

====
